---- MODULE Spec2Model ----
(***************************************************************************)
(* A model of the standalone example programs of the repository.  Every    *)
(* file under src/ is its own `main`; the model picks one program (prog)   *)
(* and runs its main, statement by statement, together with the threads    *)
(* that main spawns.                                                       *)
(*                                                                         *)
(*   wrappers.rs              sections 5-7: Arc, Mutex, RwLock threads     *)
(*   cfg_macro.rs             conditional compilation, CrossPlatformCode   *)
(*   hello_macro / hello_world  the HelloMacro derive and its use          *)
(*   partialEq_implemented.rs PartialEq for Point                          *)
(*   unimplemented_macro.rs   Animal for Cat with unimplemented!()         *)
(***************************************************************************)
EXTENDS Integers, Sequences, FiniteSets, TLC

VARIABLES
    prog,       \* the program being run
    pc,         \* position of that program's main
    out,        \* stdout: the lines printed so far, in order
    calls,      \* the functions and methods main has called, in order
    \* ---- wrappers.rs
    i,          \* main's loop index (spawn loop, then join loop)
    apc,        \* position of the Arc thread (lines 67-69)
    tpc,        \* position of each Mutex thread (lines 84-88)
    rpc,        \* position of the RwLock reader thread (lines 108-111)
    wpc,        \* position of the RwLock writer thread (lines 117-121)
    holder,     \* the set of those holding a guard of mymutex
    num,        \* the i32 inside mymutex
    tmp,        \* per Mutex thread: the value read by `*num += 1`
    readers,    \* the set of those holding a read guard of myrwlock
    writer,     \* the set of those holding a write guard of myrwlock
    rwval,      \* the String inside myrwlock
    \* ---- cfg_macro.rs
    cfg,        \* the build configuration the program was compiled under
    cross,      \* the CrossPlatformCode instance main creates
    \* ---- hello_world
    item,       \* the item annotated with #[derive(HelloMacro)]
    gen,        \* the impl generated by the derive
    \* ---- partialEq_implemented.rs
    pts,        \* three Points a, b, c
    res         \* res[j][k]: the result of pts[j] == pts[k]

vars == <<prog, pc, out, calls, i, apc, tpc, rpc, wpc, holder, num, tmp,
          readers, writer, rwval, cfg, cross, item, gen, pts, res>>

wvars == <<i, apc, tpc, rpc, wpc, holder, num, tmp, readers, writer, rwval>>
cvars == <<cfg, cross>>
hvars == <<item, gen>>
pvars == <<pts, res>>

\* main's identity as a lock holder, next to the thread names and indices
Main == "main"

\* A printed line: who printed it, the thread index (or -1), the integer
\* it shows (or -1) and the text it shows (or "").
Line(tag, idx, val, text) == [tag |-> tag, idx |-> idx, val |-> val, text |-> text]

Range(s) == {s[k] : k \in DOMAIN s}

(***************************************************************************)
(* wrappers.rs, sections 5 to 7                                            *)
(***************************************************************************)

\* `for i in 0..5`
NumThreads == 5
MutexThreads == 0 .. (NumThreads - 1)
\* main as a holder of mymutex, next to the thread indices
MainId == NumThreads

\* i32 arithmetic of `*num += 1` for b >= 0, wrapping past i32::MAX
I32Max == 2147483647
AddI32(a, b) ==
    IF a > I32Max - b THEN (a - I32Max - 1) + (b - I32Max - 1) ELSE a + b

\* String::from("...") values stored in the RwLock
InitialValue == "initial value"
ModifiedValue == "modified value"

\* ---- std::sync::Mutex: lock() blocks until no guard is alive
MutexFreeBroken(h) == TRUE
MutexFree(h) == h = {}

\* ---- std::sync::RwLock: read() needs no writer, write() needs nobody
CanRead(rs, w) == w = {}
CanWriteBroken(rs, w) == w = {}
CanWrite(rs, w) == w = {} /\ rs = {}

\* ---- dropping the guard at the end of the closure releases the lock
LeakedBy(t, h) == h
ReleasedBy(t, h) == h \ {t}

\* -- section 5: Arc
MainSpawnArc ==
    /\ prog = "wrappers" /\ pc = "arc_spawn"
    /\ apc = "unspawned"
    /\ apc' = "print"
    /\ pc' = "arc_join"
    /\ UNCHANGED <<prog, out, calls, i, tpc, rpc, wpc, holder, num, tmp,
                   readers, writer, rwval, cvars, hvars, pvars>>

ArcThreadPrint ==
    /\ prog = "wrappers" /\ apc = "print"
    /\ out' = Append(out, Line("arc_thread", -1, 42, ""))
    /\ apc' = "done"
    /\ UNCHANGED <<prog, pc, calls, i, tpc, rpc, wpc, holder, num, tmp,
                   readers, writer, rwval, cvars, hvars, pvars>>

MainJoinArc ==
    /\ prog = "wrappers" /\ pc = "arc_join"
    /\ apc = "done"
    /\ pc' = "arc_print"
    /\ UNCHANGED <<prog, out, calls, wvars, cvars, hvars, pvars>>

MainPrintArc ==
    /\ prog = "wrappers" /\ pc = "arc_print"
    /\ out' = Append(out, Line("arc_main", -1, 42, ""))
    /\ pc' = "mutex_spawn"
    /\ i' = 0
    /\ UNCHANGED <<prog, calls, apc, tpc, rpc, wpc, holder, num, tmp,
                   readers, writer, rwval, cvars, hvars, pvars>>

\* -- section 6: Mutex
MainSpawnMutexThread ==
    /\ prog = "wrappers" /\ pc = "mutex_spawn"
    /\ i < NumThreads
    /\ tpc' = [tpc EXCEPT ![i] = "lock"]
    /\ i' = i + 1
    /\ UNCHANGED <<prog, pc, out, calls, apc, rpc, wpc, holder, num, tmp,
                   readers, writer, rwval, cvars, hvars, pvars>>

MainSpawnLoopEnd ==
    /\ prog = "wrappers" /\ pc = "mutex_spawn"
    /\ i = NumThreads
    /\ pc' = "mutex_join"
    /\ i' = 0
    /\ UNCHANGED <<prog, out, calls, apc, tpc, rpc, wpc, holder, num, tmp,
                   readers, writer, rwval, cvars, hvars, pvars>>

\* line 85: let mut num = mutex_clone.lock().unwrap();
ThreadLock(t) ==
    /\ prog = "wrappers" /\ tpc[t] = "lock"
    /\ MutexFree(holder)
    /\ holder' = holder \cup {t}
    /\ tpc' = [tpc EXCEPT ![t] = "read"]
    /\ UNCHANGED <<prog, pc, out, calls, i, apc, rpc, wpc, num, tmp,
                   readers, writer, rwval, cvars, hvars, pvars>>

\* line 86: *num += 1, the load
ThreadReadDropsGuard(t) ==
    /\ prog = "wrappers" /\ tpc[t] = "read"
    /\ tmp' = [tmp EXCEPT ![t] = num]
    /\ holder' = holder \ {t}
    /\ tpc' = [tpc EXCEPT ![t] = "write"]
    /\ UNCHANGED <<prog, pc, out, calls, i, apc, rpc, wpc, num,
                   readers, writer, rwval, cvars, hvars, pvars>>
ThreadRead(t) ==
    /\ prog = "wrappers" /\ tpc[t] = "read"
    /\ tmp' = [tmp EXCEPT ![t] = num]
    /\ tpc' = [tpc EXCEPT ![t] = "write"]
    /\ UNCHANGED <<prog, pc, out, calls, i, apc, rpc, wpc, holder, num,
                   readers, writer, rwval, cvars, hvars, pvars>>

\* line 86: *num += 1, the store
ThreadWrite(t) ==
    /\ prog = "wrappers" /\ tpc[t] = "write"
    /\ num' = AddI32(tmp[t], 1)
    /\ tpc' = [tpc EXCEPT ![t] = "print"]
    /\ UNCHANGED <<prog, pc, out, calls, i, apc, rpc, wpc, holder, tmp,
                   readers, writer, rwval, cvars, hvars, pvars>>

\* line 87: println!("... {} ...: {}", i, *num)
ThreadPrint(t) ==
    /\ prog = "wrappers" /\ tpc[t] = "print"
    /\ out' = Append(out, Line("mutex_thread", t, num, ""))
    /\ tpc' = [tpc EXCEPT ![t] = "unlock"]
    /\ UNCHANGED <<prog, pc, calls, i, apc, rpc, wpc, holder, num, tmp,
                   readers, writer, rwval, cvars, hvars, pvars>>

\* line 88: the closure ends and the guard `num` is dropped
ThreadUnlock(t) ==
    /\ prog = "wrappers" /\ tpc[t] = "unlock"
    /\ holder' = ReleasedBy(t, holder)
    /\ tpc' = [tpc EXCEPT ![t] = "done"]
    /\ UNCHANGED <<prog, pc, out, calls, i, apc, rpc, wpc, num, tmp,
                   readers, writer, rwval, cvars, hvars, pvars>>

\* lines 92-94: handle.join().unwrap() for each handle, in spawn order
MainJoinMutexThread ==
    /\ prog = "wrappers" /\ pc = "mutex_join"
    /\ i < NumThreads
    /\ tpc[i] = "done"
    /\ i' = i + 1
    /\ UNCHANGED <<prog, pc, out, calls, apc, tpc, rpc, wpc, holder, num, tmp,
                   readers, writer, rwval, cvars, hvars, pvars>>

MainJoinLoopEnd ==
    /\ prog = "wrappers" /\ pc = "mutex_join"
    /\ i = NumThreads
    /\ pc' = "mutex_final_lock"
    /\ UNCHANGED <<prog, out, calls, wvars, cvars, hvars, pvars>>

\* line 96: *mymutex.lock().unwrap() ...
MainLockFinal ==
    /\ prog = "wrappers" /\ pc = "mutex_final_lock"
    /\ MutexFree(holder)
    /\ holder' = holder \cup {MainId}
    /\ pc' = "mutex_final_print"
    /\ UNCHANGED <<prog, out, calls, i, apc, tpc, rpc, wpc, num, tmp,
                   readers, writer, rwval, cvars, hvars, pvars>>

\* ... printed, and the temporary guard dropped at the end of the statement
MainPrintFinal ==
    /\ prog = "wrappers" /\ pc = "mutex_final_print"
    /\ out' = Append(out, Line("mutex_main", -1, num, ""))
    /\ holder' = ReleasedBy(MainId, holder)
    /\ pc' = "rw_spawn_reader"
    /\ UNCHANGED <<prog, calls, i, apc, tpc, rpc, wpc, num, tmp,
                   readers, writer, rwval, cvars, hvars, pvars>>

\* -- section 7: RwLock
MainSpawnReader ==
    /\ prog = "wrappers" /\ pc = "rw_spawn_reader"
    /\ rpc' = "read"
    /\ pc' = "rw_spawn_writer"
    /\ UNCHANGED <<prog, out, calls, i, apc, tpc, wpc, holder, num, tmp,
                   readers, writer, rwval, cvars, hvars, pvars>>

MainSpawnWriter ==
    /\ prog = "wrappers" /\ pc = "rw_spawn_writer"
    /\ wpc' = "write"
    /\ pc' = "rw_join_reader"
    /\ UNCHANGED <<prog, out, calls, i, apc, tpc, rpc, holder, num, tmp,
                   readers, writer, rwval, cvars, hvars, pvars>>

\* line 109: let reader = rwlock_clone.read().unwrap();
ReaderLock ==
    /\ prog = "wrappers" /\ rpc = "read"
    /\ CanRead(readers, writer)
    /\ readers' = readers \cup {"reader"}
    /\ rpc' = "print"
    /\ UNCHANGED <<prog, pc, out, calls, i, apc, tpc, wpc, holder, num, tmp,
                   writer, rwval, cvars, hvars, pvars>>

ReaderPrint ==
    /\ prog = "wrappers" /\ rpc = "print"
    /\ out' = Append(out, Line("rw_reader", -1, -1, rwval))
    /\ rpc' = "unlock"
    /\ UNCHANGED <<prog, pc, calls, i, apc, tpc, wpc, holder, num, tmp,
                   readers, writer, rwval, cvars, hvars, pvars>>

ReaderUnlock ==
    /\ prog = "wrappers" /\ rpc = "unlock"
    /\ readers' = readers \ {"reader"}
    /\ rpc' = "done"
    /\ UNCHANGED <<prog, pc, out, calls, i, apc, tpc, wpc, holder, num, tmp,
                   writer, rwval, cvars, hvars, pvars>>

\* line 118: let mut writer = rwlock_clone.write().unwrap();
WriterLock ==
    /\ prog = "wrappers" /\ wpc = "write"
    /\ CanWrite(readers, writer)
    /\ writer' = writer \cup {"writer"}
    /\ wpc' = "assign"
    /\ UNCHANGED <<prog, pc, out, calls, i, apc, tpc, rpc, holder, num, tmp,
                   readers, rwval, cvars, hvars, pvars>>

WriterAssign ==
    /\ prog = "wrappers" /\ wpc = "assign"
    /\ rwval' = ModifiedValue
    /\ wpc' = "print"
    /\ UNCHANGED <<prog, pc, out, calls, i, apc, tpc, rpc, holder, num, tmp,
                   readers, writer, cvars, hvars, pvars>>

WriterPrint ==
    /\ prog = "wrappers" /\ wpc = "print"
    /\ out' = Append(out, Line("rw_writer", -1, -1, rwval))
    /\ wpc' = "unlock"
    /\ UNCHANGED <<prog, pc, calls, i, apc, tpc, rpc, holder, num, tmp,
                   readers, writer, rwval, cvars, hvars, pvars>>

WriterUnlock ==
    /\ prog = "wrappers" /\ wpc = "unlock"
    /\ writer' = ReleasedBy("writer", writer)
    /\ wpc' = "done"
    /\ UNCHANGED <<prog, pc, out, calls, i, apc, tpc, rpc, holder, num, tmp,
                   readers, rwval, cvars, hvars, pvars>>

MainJoinReader ==
    /\ prog = "wrappers" /\ pc = "rw_join_reader"
    /\ rpc = "done"
    /\ pc' = "rw_join_writer"
    /\ UNCHANGED <<prog, out, calls, wvars, cvars, hvars, pvars>>

MainJoinWriter ==
    /\ prog = "wrappers" /\ pc = "rw_join_writer"
    /\ wpc = "done"
    /\ pc' = "rw_final_read"
    /\ UNCHANGED <<prog, out, calls, wvars, cvars, hvars, pvars>>

\* line 127: *myrwlock.read().unwrap() ...
MainReadFinal ==
    /\ prog = "wrappers" /\ pc = "rw_final_read"
    /\ CanRead(readers, writer)
    /\ readers' = readers \cup {Main}
    /\ pc' = "rw_final_print"
    /\ UNCHANGED <<prog, out, calls, i, apc, tpc, rpc, wpc, holder, num, tmp,
                   writer, rwval, cvars, hvars, pvars>>

\* ... printed, and the temporary guard dropped at the end of the statement
MainPrintRwFinal ==
    /\ prog = "wrappers" /\ pc = "rw_final_print"
    /\ out' = Append(out, Line("rw_main", -1, -1, rwval))
    /\ readers' = readers \ {Main}
    /\ pc' = "rest"
    /\ UNCHANGED <<prog, calls, i, apc, tpc, rpc, wpc, holder, num, tmp,
                   writer, rwval, cvars, hvars, pvars>>

\* lines 130-180: section 8 and the closing prints, single-threaded
MainRest ==
    /\ prog = "wrappers" /\ pc = "rest"
    /\ pc' = "done"
    /\ UNCHANGED <<prog, out, calls, wvars, cvars, hvars, pvars>>

WrappersMain ==
    \/ MainSpawnArc \/ MainJoinArc \/ MainPrintArc
    \/ MainSpawnMutexThread \/ MainSpawnLoopEnd
    \/ MainJoinMutexThread \/ MainJoinLoopEnd
    \/ MainLockFinal \/ MainPrintFinal
    \/ MainSpawnReader \/ MainSpawnWriter
    \/ MainJoinReader \/ MainJoinWriter
    \/ MainReadFinal \/ MainPrintRwFinal
    \/ MainRest

MutexThread(t) ==
    \/ ThreadLock(t) \/ ThreadRead(t) \/ ThreadWrite(t)
    \/ ThreadPrint(t) \/ ThreadUnlock(t)

ReaderThread == ReaderLock \/ ReaderPrint \/ ReaderUnlock
WriterThread == WriterLock \/ WriterAssign \/ WriterPrint \/ WriterUnlock

WrappersNext ==
    \/ WrappersMain
    \/ ArcThreadPrint
    \/ \E t \in MutexThreads : MutexThread(t)
    \/ ReaderThread
    \/ WriterThread

WrappersInit ==
    /\ i = 0
    /\ apc = "unspawned"
    /\ tpc = [t \in MutexThreads |-> "unspawned"]
    /\ rpc = "unspawned"
    /\ wpc = "unspawned"
    /\ holder = {}
    /\ num = 0
    /\ tmp = [t \in MutexThreads |-> 0]
    /\ readers = {}
    /\ writer = {}
    /\ rwval = InitialValue

(***************************************************************************)
(* cfg_macro.rs                                                            *)
(***************************************************************************)

\* The build configurations considered: target_os, target_arch and
\* debug_assertions; target_pointer_width and the unix family follow.
TargetOS == {"linux", "macos", "windows", "ios", "freebsd"}
TargetArch == {"x86_64", "aarch64", "x86"}
BuildConfigs ==
    [target_os : TargetOS, target_arch : TargetArch, debug_assertions : BOOLEAN]

PointerWidth(c) == IF c.target_arch = "x86" THEN 32 ELSE 64
Unix(c) == c.target_os # "windows"

\* ---- the cfg predicates of the items, by the line of the attribute
LinuxCode_cfg(c) == c.target_os = "linux"
MacOSCode_cfg(c) == c.target_os = "macos"
WindowsCode_cfg(c) == c.target_os = "windows"
CrossPlatformCode_cfg(c) == c.target_os \in {"linux", "macos", "windows"}
debug_info_cfg(c) == c.debug_assertions
release_info_cfg_same(c) == c.debug_assertions
release_info_cfg(c) == ~c.debug_assertions
Linux64Code_cfg(c) == c.target_os = "linux" /\ PointerWidth(c) = 64
ApplePlatformCode_cfg(c) == c.target_os \in {"macos", "ios"}
UnixLikeCode_cfg(c) == c.target_os # "windows"
SpecificUnixCode_cfg(c) ==
    /\ Unix(c)
    /\ c.target_os # "macos"
    /\ c.target_arch \in {"x86_64", "aarch64"}

Decl(cond, name) == IF cond THEN <<name>> ELSE <<>>

\* The items of the crate root that survive cfg-stripping, in source order
\* (the two `feature = "..."` items need a Cargo feature no manifest defines).
ItemDecls(c) ==
    Decl(LinuxCode_cfg(c), "LinuxCode")
    \o Decl(MacOSCode_cfg(c), "MacOSCode")
    \o Decl(WindowsCode_cfg(c), "WindowsCode")
    \o Decl(CrossPlatformCode_cfg(c), "CrossPlatformCode")
    \o Decl(CrossPlatformCode_cfg(c), "PlatformCapabilities")
    \o Decl(debug_info_cfg(c), "debug_info")
    \o Decl(release_info_cfg(c), "release_info")
    \o Decl(Linux64Code_cfg(c), "Linux64Code")
    \o Decl(ApplePlatformCode_cfg(c), "ApplePlatformCode")
    \o Decl(UnixLikeCode_cfg(c), "UnixLikeCode")
    \o Decl(SpecificUnixCode_cfg(c), "SpecificUnixCode")
    \o <<"main">>
    \o Decl(Linux64Code_cfg(c), "Linux64Code")
    \o Decl(ApplePlatformCode_cfg(c), "AppleCode")
    \o Decl(UnixLikeCode_cfg(c), "NonWindowsCode")
    \o Decl(SpecificUnixCode_cfg(c), "SpecificUnixCode")

\* The cfg attributes on main's own statements
MainUsesMacOSCode(c) == c.target_os = "macos"
MainUsesLinuxCode(c) == c.target_os = "linux"
MainUsesCrossPlatformCode(c) == c.target_os \in {"linux", "macos", "windows"}
MainCallsDebugInfo(c) == c.debug_assertions
MainCallsReleaseInfo(c) == ~c.debug_assertions

\* The items main names once its cfg attributes are applied
MainUses(c) ==
    Range(Decl(MainUsesMacOSCode(c), "MacOSCode")
          \o Decl(MainUsesLinuxCode(c), "LinuxCode")
          \o Decl(MainUsesCrossPlatformCode(c), "CrossPlatformCode")
          \o Decl(MainCallsDebugInfo(c), "debug_info")
          \o Decl(MainCallsReleaseInfo(c), "release_info"))

\* The crate builds: no name is defined twice and every name main uses is
\* defined.
Compiles(c) ==
    LET ds == ItemDecls(c) IN
    /\ \A j, k \in DOMAIN ds : ds[j] = ds[k] => j = k
    /\ MainUses(c) \subseteq Range(ds)

Capabilities(variant) == [variant |-> variant, f1 |-> TRUE, f2 |-> TRUE, f3 |-> TRUE]
Panic == [variant |-> "panic", f1 |-> FALSE, f2 |-> FALSE, f3 |-> FALSE]
NoCross == [variant |-> "none", f1 |-> FALSE, f2 |-> FALSE, f3 |-> FALSE]

\* CrossPlatformCode::new, the if-chain over cfg!(target_os = ...)
new_no_windows(c) ==
    IF c.target_os = "linux" THEN Capabilities("Linux")
    ELSE IF c.target_os = "macos" THEN Capabilities("MacOS")
    ELSE Panic
new(c) ==
    IF c.target_os = "linux" THEN Capabilities("Linux")
    ELSE IF c.target_os = "macos" THEN Capabilities("MacOS")
    ELSE IF c.target_os = "windows" THEN Capabilities("Windows")
    ELSE Panic

\* lines 511-532: the cfg! chain of section 1
CfgSection1 ==
    /\ prog = "cfg_macro" /\ pc = "section1"
    /\ IF cfg.target_os = "macos"
         THEN /\ out' = Append(out, Line("os", -1, -1, "macos"))
              /\ calls' = calls \o Decl(MainUsesMacOSCode(cfg), "MacOSCode::new")
         ELSE IF cfg.target_os = "linux"
         THEN /\ out' = Append(out, Line("os", -1, -1, "linux"))
              /\ calls' = calls \o Decl(MainUsesLinuxCode(cfg), "LinuxCode::new")
         ELSE /\ out' = Append(out, Line("os", -1, -1, "unsupported"))
              /\ calls' = calls
    /\ pc' = "section2"
    /\ UNCHANGED <<prog, wvars, cvars, hvars, pvars>>

\* lines 539-543: CrossPlatformCode::new() and greet(), when compiled in
CfgSection2 ==
    /\ prog = "cfg_macro" /\ pc = "section2"
    /\ IF MainUsesCrossPlatformCode(cfg)
         THEN LET made == new(cfg) IN
              /\ cross' = made
              /\ IF made = Panic
                   THEN /\ calls' = Append(calls, "CrossPlatformCode::new")
                        /\ pc' = "panicked"
                        /\ out' = out
                   ELSE /\ calls' = calls \o <<"CrossPlatformCode::new", "greet">>
                        /\ pc' = "section3"
                        /\ out' = Append(out, Line("greet", -1, -1, made.variant))
         ELSE /\ pc' = "section3"
              /\ UNCHANGED <<cross, calls, out>>
    /\ UNCHANGED <<prog, wvars, cfg, hvars, pvars>>

\* lines 547-569: system information, cfg! values
CfgSection34 ==
    /\ prog = "cfg_macro" /\ pc = "section3"
    /\ out' = Append(out, Line("debug_mode", -1, -1,
                               IF cfg.debug_assertions THEN "true" ELSE "false"))
    /\ pc' = "section5"
    /\ UNCHANGED <<prog, calls, wvars, cvars, hvars, pvars>>

\* lines 575-579: the two cfg-gated calls
CfgSection5 ==
    /\ prog = "cfg_macro" /\ pc = "section5"
    /\ calls' = calls \o Decl(MainCallsDebugInfo(cfg), "debug_info")
                      \o Decl(MainCallsReleaseInfo(cfg), "release_info")
    /\ out' = out \o Decl(MainCallsDebugInfo(cfg), Line("debug_info", -1, -1, ""))
                  \o Decl(MainCallsReleaseInfo(cfg), Line("release_info", -1, -1, ""))
    /\ pc' = "done"
    /\ UNCHANGED <<prog, wvars, cvars, hvars, pvars>>

CfgNext == CfgSection1 \/ CfgSection2 \/ CfgSection34 \/ CfgSection5

CfgRunnable == {c \in BuildConfigs : Compiles(c)}
DefaultCfg ==
    [target_os |-> "macos", target_arch |-> "aarch64", debug_assertions |-> TRUE]

(***************************************************************************)
(* hello_macro, hello_macro_derive, hello_world                            *)
(***************************************************************************)

Tok(kind, text) == [kind |-> kind, text |-> text]

\* Type names: Cat (hello_world), MyStruct (the trait's doc example), others
TypeNames == {"Cat", "MyStruct", "Dog", "r#loop"}

\* The tokens of an item handed to the derive:
\* outer attributes, visibility, struct or enum, the name, the body.
ItemTokens(attrs, vis, kw, name) ==
    attrs \o vis \o <<Tok("keyword", kw), Tok("ident", name)>>
    \o (IF kw = "struct" THEN <<Tok("punct", ";")>>
        ELSE <<Tok("punct", "{"), Tok("punct", "}")>>)

AttrChoices == {<<>>, <<Tok("attr", "#[derive(Debug)]")>>}
VisChoices == {<<>>, <<Tok("vis", "pub")>>}
Keywords == {"struct", "enum"}

DeriveItems ==
    {[ident |-> n, tokens |-> ItemTokens(a, v, k, n)] :
        a \in AttrChoices, v \in VisChoices, k \in Keywords, n \in TypeNames}

\* hello_world/src/main.rs lines 11-13
CatItem ==
    [ident |-> "Cat",
     tokens |-> ItemTokens(<<Tok("attr", "#[derive(Debug)]")>>, <<>>, "struct", "Cat")]

NoGen == [self_ty |-> "", fmt |-> <<>>, args |-> <<>>]

\* syn::parse into a DeriveInput: attributes, visibility, then the keyword
\* followed by the identifier
RECURSIVE SkipOuter(_)
SkipOuter(ts) ==
    IF ts # <<>> /\ Head(ts).kind \in {"attr", "vis"} THEN SkipOuter(Tail(ts)) ELSE ts

parse(ts) ==
    LET rest == SkipOuter(ts) IN
    [kw |-> rest[1].text, ident |-> rest[2].text]

\* stringify!(tokens): the source text of the tokens
stringify(tokens) == tokens

\* impl_hello_macro: quote! { impl HelloMacro for #name { fn hello_macro() {
\*   println!("Hello, Macro! I'm a {}!", stringify!(#name)); } } }
impl_hello_macro_unquoted(ast) ==
    [self_ty |-> ast.ident,
     fmt |-> <<"Hello, Macro! I'm a ", "{}", "!">>,
     args |-> <<stringify("name")>>]
impl_hello_macro(ast) ==
    [self_ty |-> ast.ident,
     fmt |-> <<"Hello, Macro! I'm a ", "{}", "!">>,
     args |-> <<stringify(ast.ident)>>]

hello_macro_derive(input) == impl_hello_macro(parse(input))

\* format_args!: each {} takes the next argument
RECURSIVE Format(_, _)
Format(fmt, args) ==
    IF fmt = <<>> THEN ""
    ELSE IF Head(fmt) = "{}" THEN Head(args) \o Format(Tail(fmt), Tail(args))
    ELSE Head(fmt) \o Format(Tail(fmt), args)

\* compile time: #[derive(HelloMacro)] is expanded
HelloExpand ==
    /\ prog = "hello_world" /\ pc = "expand"
    /\ gen' = hello_macro_derive(item.tokens)
    /\ pc' = "call"
    /\ UNCHANGED <<prog, out, calls, wvars, cvars, item, pvars>>

\* main: <the type>::hello_macro()
HelloCall ==
    /\ prog = "hello_world" /\ pc = "call"
    /\ gen.self_ty = item.ident
    /\ calls' = Append(calls, "hello_macro")
    /\ out' = Append(out, Line("hello_macro", -1, -1, Format(gen.fmt, gen.args)))
    /\ pc' = "done"
    /\ UNCHANGED <<prog, wvars, cvars, hvars, pvars>>

HelloNext == HelloExpand \/ HelloCall

(***************************************************************************)
(* partialEq_implemented.rs                                                *)
(***************************************************************************)

\* the coordinates of main's points are 10 and 11
PointBase == 10
CoordRadius == 1
Coords == (PointBase - CoordRadius) .. (PointBase + CoordRadius)
Points == [x : Coords, y : Coords]

\* impl PartialEq for Point
eq_x_only(self, other) == self.x = other.x
eq(self, other) == (self.x = other.x) /\ (self.y = other.y)

BoolText(b) == IF b THEN "true" ELSE "false"

\* main: a == b and b == c are evaluated and printed; res keeps every pair
PointCompare ==
    /\ prog = "partialEq" /\ pc = "compare"
    /\ res' = [j \in 1..3 |-> [k \in 1..3 |-> eq(pts[j], pts[k])]]
    /\ out' = out \o <<Line("p1 == p2", -1, -1, BoolText(eq(pts[1], pts[2]))),
                       Line("p2 == p3", -1, -1, BoolText(eq(pts[2], pts[3])))>>
    /\ pc' = "done"
    /\ UNCHANGED <<prog, calls, wvars, cvars, hvars, pts>>

MainPoints == [j \in 1..3 |-> IF j = 3 THEN [x |-> 10, y |-> 11] ELSE [x |-> 10, y |-> 10]]
NoRes == [j \in 1..3 |-> [k \in 1..3 |-> FALSE]]

(***************************************************************************)
(* unimplemented_macro.rs                                                  *)
(***************************************************************************)

\* impl Animal for Cat: both bodies are unimplemented!(), which panics
walk_empty(self) == "return"
walk(self) == "panic"
make_noise(self) == "panic"

\* line 20: let cat = Cat {};
UnimplMakeCat ==
    /\ prog = "unimplemented" /\ pc = "make_cat"
    /\ pc' = "walk"
    /\ UNCHANGED <<prog, out, calls, wvars, cvars, hvars, pvars>>

\* line 21: cat.walk(); then main returns
UnimplWalk ==
    /\ prog = "unimplemented" /\ pc = "walk"
    /\ calls' = Append(calls, "walk")
    /\ pc' = IF walk("Cat") = "panic" THEN "panicked" ELSE "done"
    /\ UNCHANGED <<prog, out, wvars, cvars, hvars, pvars>>

UnimplNext == UnimplMakeCat \/ UnimplWalk

(***************************************************************************)
(* The programs together                                                   *)
(***************************************************************************)

Programs == {"wrappers", "cfg_macro", "hello_world", "partialEq", "unimplemented"}

FirstPc(p) ==
    CASE p = "wrappers" -> "arc_spawn"
      [] p = "cfg_macro" -> "section1"
      [] p = "hello_world" -> "expand"
      [] p = "partialEq" -> "compare"
      [] p = "unimplemented" -> "make_cat"

Init ==
    /\ prog \in Programs
    /\ pc = FirstPc(prog)
    /\ out = <<>>
    /\ calls = <<>>
    /\ WrappersInit
    /\ cfg \in (IF prog = "cfg_macro" THEN CfgRunnable ELSE {DefaultCfg})
    /\ cross = NoCross
    /\ item \in (IF prog = "hello_world" THEN DeriveItems ELSE {CatItem})
    /\ gen = NoGen
    /\ pts \in (IF prog = "partialEq" THEN [1..3 -> Points] ELSE {MainPoints})
    /\ res = NoRes

Next ==
    \/ WrappersNext
    \/ CfgNext
    \/ HelloNext
    \/ PointCompare
    \/ UnimplNext

Spec == Init /\ [][Next]_vars

\* The threads of wrappers.rs are OS threads: each one that can take a step
\* eventually takes it.
Fairness ==
    /\ WF_vars(WrappersMain)
    /\ WF_vars(ArcThreadPrint)
    /\ \A t \in MutexThreads : WF_vars(MutexThread(t))
    /\ WF_vars(ReaderThread)
    /\ WF_vars(WriterThread)

FairSpec == Spec /\ Fairness

(***************************************************************************)
(* Properties                                                              *)
(***************************************************************************)

IsThreadLine(l) == l.tag = "mutex_thread"
ThreadLines == SelectSeq(out, IsThreadLine)
InCritical(t) == tpc[t] \in {"read", "write", "print", "unlock"}
AllJoined == pc \notin {"arc_spawn", "arc_join", "arc_print", "mutex_spawn", "mutex_join"}
Count(seq, x) == Cardinality({k \in DOMAIN seq : seq[k] = x})

\* C1: in the Mutex section of wrappers.rs, once main has joined all 5
\* threads the counter is exactly 5, and 5 is the value main reads and
\* prints, under every interleaving: no increment is lost (at any moment
\* the counter is the number of threads that have stored their increment).
C1_NoLostIncrement ==
    prog = "wrappers" =>
        /\ num = Cardinality({t \in MutexThreads : tpc[t] \in {"print", "unlock", "done"}})
        /\ (pc \in {"mutex_final_lock", "mutex_final_print"} => num = NumThreads)
        /\ \A k \in DOMAIN out : out[k].tag = "mutex_main" => out[k].val = 5

\* main has printed the final value after a run in which the thread spawned
\* last incremented first
C1_Witness ==
    /\ prog = "wrappers"
    /\ \E k \in DOMAIN out : out[k].tag = "mutex_main" /\ out[k].val = 5
    /\ ThreadLines[1].idx = NumThreads - 1

\* C2: at most one of the 5 threads is between lock() and the release of
\* its guard, the guard is held by exactly that thread, and the values the
\* threads print are 1, 2, 3, 4, 5 in output order, each thread printing
\* once, whatever the order of the thread indices.
C2_MutualExclusion ==
    prog = "wrappers" =>
        LET tl == ThreadLines IN
        /\ Cardinality({t \in MutexThreads : InCritical(t)}) <= 1
        /\ Cardinality(holder) <= 1
        /\ \A t \in MutexThreads : InCritical(t) <=> t \in holder
        /\ \A k \in DOMAIN tl : tl[k].val = k
        /\ \A j, k \in DOMAIN tl : tl[j].idx = tl[k].idx => j = k
        /\ AllJoined => Len(tl) = NumThreads

\* all five threads have printed, in an order that is not the spawn order,
\* and another thread was waiting for the lock while one held it
C2_Witness ==
    /\ prog = "wrappers"
    /\ Len(ThreadLines) = NumThreads
    /\ ThreadLines[1].idx = 3
    /\ ThreadLines[NumThreads].idx = 0

\* C3: in the RwLock section the writer never holds the write guard while
\* the reader thread or main holds a read guard, and vice versa; the guards
\* are held exactly between acquisition and release.
C3_ReadersXorWriter ==
    prog = "wrappers" =>
        /\ ~(writer # {} /\ readers # {})
        /\ Cardinality(writer) <= 1
        /\ ("writer" \in writer) <=> (wpc \in {"assign", "print", "unlock"})
        /\ ("reader" \in readers) <=> (rpc \in {"print", "unlock"})
        /\ (Main \in readers) <=> (pc = "rw_final_print")

\* the writer holds the write guard while the reader thread is blocked in
\* read()
C3_Witness ==
    /\ prog = "wrappers"
    /\ writer = {"writer"}
    /\ wpc = "print"
    /\ rpc = "read"

\* C4: for every type name N carrying #[derive(HelloMacro)], N::hello_macro()
\* prints exactly the line "Hello, Macro! I'm a N!"; for Cat of hello_world
\* the line is "Hello, Macro! I'm a Cat!".
C4_HelloLine ==
    (prog = "hello_world" /\ pc = "done") =>
        /\ out = <<Line("hello_macro", -1, -1,
                        "Hello, Macro! I'm a " \o item.ident \o "!")>>
        /\ item = CatItem => out[1].text = "Hello, Macro! I'm a Cat!"
        /\ gen.self_ty = item.ident

\* hello_world's Cat has printed its line
C4_Witness ==
    /\ prog = "hello_world" /\ pc = "done"
    /\ item = CatItem
    /\ Len(out) = 1 /\ out[1].text = "Hello, Macro! I'm a Cat!"

VariantOf(os) ==
    CASE os = "linux" -> "Linux"
      [] os = "macos" -> "MacOS"
      [] os = "windows" -> "Windows"
      [] OTHER -> "none"

\* C5: in every build configuration that compiles CrossPlatformCode
\* (target_os linux, macos or windows), CrossPlatformCode::new does not
\* panic and stores the PlatformCapabilities variant of the target OS with
\* all three flags true.
C5_NewNeverPanics ==
    /\ \A c \in BuildConfigs : CrossPlatformCode_cfg(c) =>
           new(c) = Capabilities(VariantOf(c.target_os))
    /\ prog = "cfg_macro" =>
           /\ pc # "panicked"
           /\ (CrossPlatformCode_cfg(cfg) /\ pc \in {"section3", "section5", "done"}) =>
                  /\ cross.variant = VariantOf(cfg.target_os)
                  /\ cross.f1 /\ cross.f2 /\ cross.f3
                  /\ Count(calls, "CrossPlatformCode::new") = 1

\* a Windows build has created its CrossPlatformCode
C5_Witness ==
    /\ prog = "cfg_macro" /\ pc = "done"
    /\ cfg.target_os = "windows"
    /\ cross = Capabilities("Windows")

\* C6: for every value of debug_assertions exactly one of debug_info and
\* release_info is compiled into the program, and main calls that one
\* exactly once and the other never: debug_info when debug_assertions is
\* true, release_info when it is false.
C6_ExactlyOneInfo ==
    prog = "cfg_macro" =>
        LET wanted == IF cfg.debug_assertions THEN "debug_info" ELSE "release_info"
            other == IF cfg.debug_assertions THEN "release_info" ELSE "debug_info"
        IN
        /\ {"debug_info", "release_info"} \cap Range(ItemDecls(cfg)) = {wanted}
        /\ Count(calls, other) = 0
        /\ Count(calls, wanted) = (IF pc = "done" THEN 1 ELSE 0)

\* a release build has run to the end and called release_info
C6_Witness ==
    /\ prog = "cfg_macro" /\ pc = "done"
    /\ ~cfg.debug_assertions
    /\ Count(calls, "release_info") = 1

\* C7: == on Point is reflexive, symmetric and transitive, and a == b holds
\* exactly when a.x == b.x and a.y == b.y.
C7_Equivalence ==
    (prog = "partialEq" /\ pc = "done") =>
        /\ \A j \in 1..3 : res[j][j]
        /\ \A j, k \in 1..3 : res[j][k] => res[k][j]
        /\ \A j, k, l \in 1..3 : (res[j][k] /\ res[k][l]) => res[j][l]
        /\ \A j, k \in 1..3 : res[j][k] <=> (pts[j].x = pts[k].x /\ pts[j].y = pts[k].y)

\* main's own points: p1 == p2 printed true, p2 == p3 printed false
C7_Witness ==
    /\ prog = "partialEq" /\ pc = "done"
    /\ pts = MainPoints
    /\ res[1][2] /\ ~res[2][3]
    /\ out[1].text = "true" /\ out[2].text = "false"

WrappersDone ==
    /\ pc = "done"
    /\ apc = "done" /\ rpc = "done" /\ wpc = "done"
    /\ \A t \in MutexThreads : tpc[t] = "done"
    /\ holder = {} /\ readers = {} /\ writer = {}

\* C8: under fair scheduling wrappers.rs main terminates: every spawned
\* thread acquires its lock, releases it and finishes, every join returns,
\* and until then some step is always possible (no deadlock).
C8_Terminates ==
    (prog = "wrappers") =>
        /\ <>WrappersDone
        /\ [](WrappersDone \/ ENABLED WrappersNext)

\* main has returned with every thread finished and every lock free
C8_Witness == prog = "wrappers" /\ WrappersDone /\ Len(ThreadLines) = NumThreads

\* C9: cat.walk() (like cat.make_noise()) ends in the panic of
\* unimplemented!: main never returns normally, nothing runs after the call
\* to walk, and main never calls make_noise.
C9_WalkPanics ==
    prog = "unimplemented" =>
        /\ pc # "done"
        /\ pc \in {"make_cat", "walk", "panicked"}
        /\ (Count(calls, "walk") > 0) => (pc = "panicked" /\ calls = <<"walk">>)
        /\ Count(calls, "make_noise") = 0
        /\ make_noise("Cat") = "panic"

\* walk has been called and main has panicked
C9_Witness == prog = "unimplemented" /\ pc = "panicked" /\ calls = <<"walk">>

====
